---- MODULE Spec2Model ----
(***************************************************************************)
(* persistent-json (src/src/lib.rs): the sorted-key Object map built on    *)
(* two parallel persistent Vectors, its Entry handles, its iterators and   *)
(* the Index capability of Value.                                          *)
(*                                                                         *)
(* Keys are Strings; the model names a key by its rank under String's Ord  *)
(* ("a" < "b" < "c" ... are 1 < 2 < 3 ...).  Positions are 0-based as in   *)
(* the source; a TLA+ sequence s holds position i at s[i + 1].  Stored     *)
(* values are scalar Values (Null or a Number); nesting is not modelled.   *)
(* librrb's Vector is an external crate: its operations are modelled by    *)
(* their contract at the call sites of lib.rs.                             *)
(***************************************************************************)
EXTENDS Integers, Sequences, FiniteSets, TLC

\* ------------------------------------------------------------------ bounds
MaxKey == 3
MaxVal == 1
MaxLen == 3
MaxOtherLen == 2
MaxArr == 2
MaxPairs == 3
Bits == 4

KeySpace == 1..MaxKey

\* ------------------------------------------------------------------ values
Null == [tag |-> "Null"]
PosInt(n) == [tag |-> "Number", n |-> n]
Vals == {Null} \cup {PosInt(n) : n \in 1..MaxVal}

None == [some |-> FALSE]
Some(x) == [some |-> TRUE, v |-> x]

\* The variants of Value that carry no sequence.
ScalarTags == {"Null", "Number", "String", "Bool"}

\* ------------------------------------------------------------------ Vector
\* librrb::Vector, by contract.  i is a 0-based position.
VecGet(s, i) == IF i < Len(s) THEN Some(s[i + 1]) ELSE None

VecInsert(s, i, x) == SubSeq(s, 1, i) \o <<x>> \o SubSeq(s, i + 1, Len(s))

VecRemove(s, i) ==
    IF i < Len(s)
    THEN [vec |-> SubSeq(s, 1, i) \o SubSeq(s, i + 2, Len(s)), ret |-> Some(s[i + 1])]
    ELSE [vec |-> s, ret |-> None]

VecReplace(s, i, x) == [s EXCEPT ![i + 1] = x]

\* Vector::equal_range on a sorted sequence: the span start..end of the
\* elements equal to k, or the insertion position when there is none.
EqualRange(ks, k) ==
    LET lo == Cardinality({i \in 1..Len(ks) : ks[i] < k})
        hi == Cardinality({i \in 1..Len(ks) : ks[i] <= k})
    IN  [found |-> hi > lo, start |-> lo, end |-> hi]

IsSorted(ks) == \A i \in 1..(Len(ks) - 1) : ks[i] <= ks[i + 1]

StrictlyIncreasing(ks) == \A i \in 1..(Len(ks) - 1) : ks[i] < ks[i + 1]

\* The permutations of 1..n, for every length an Object of the model has.
Perms ==
    [n \in 0..MaxLen |->
        {p \in [1..n -> 1..n] : \A i, j \in 1..n : i # j => p[i] # p[j]}]

\* A dual sort that sorts the keys and leaves the values where they were.
DualSortKeysOnly(ks, vs) ==
    LET n == Len(ks)
    IN  {<<[i \in 1..n |-> ks[p[i]]], vs>> :
            p \in {q \in Perms[n] : IsSorted([i \in 1..n |-> ks[q[i]]])}}

\* Vector::dual_sort: every outcome <<keys, values>> a sort of ks that
\* carries vs along may produce (the order among equal keys is not fixed).
DualSort(ks, vs) ==
    LET n == Len(ks)
    IN  {<<[i \in 1..n |-> ks[p[i]]], [i \in 1..n |-> vs[p[i]]]>> :
            p \in {q \in Perms[n] : IsSorted([i \in 1..n |-> ks[q[i]]])}}

\* ------------------------------------------------------------------ Object
Object(ks, vs) == [keys |-> ks, values |-> vs]

ObjectNew == Object(<<>>, <<>>)

\* Result<usize, usize> of the key search; fail is the debug assertion
\* range.len() == 1 failing in a build with debug assertions.
GetIndexForKey(o, k, dbg) ==
    LET r == EqualRange(o.keys, k)
    IN  IF r.found
        THEN [ok |-> TRUE, pos |-> r.start, fail |-> dbg /\ (r.end - r.start # 1)]
        ELSE [ok |-> FALSE, pos |-> r.start, fail |-> FALSE]

ObjectGet(o, k, dbg) ==
    LET p == GetIndexForKey(o, k, dbg)
    IN  IF p.fail THEN [ret |-> None, panic |-> "debug_assert"]
        ELSE IF p.ok THEN [ret |-> VecGet(o.values, p.pos), panic |-> "none"]
        ELSE [ret |-> None, panic |-> "none"]

ObjectContainsKey(o, k, dbg) ==
    LET p == GetIndexForKey(o, k, dbg)
    IN  IF p.fail THEN [ret |-> FALSE, panic |-> "debug_assert"]
        ELSE [ret |-> p.ok, panic |-> "none"]

ObjectLen(o) == Len(o.keys)

ObjectIsEmpty(o) == ObjectLen(o) = 0

\* An insert that keeps the value a present key already has.
ObjectInsertKeepFirst(o, k, v, dbg) ==
    LET p == GetIndexForKey(o, k, dbg)
    IN  IF p.fail THEN [obj |-> o, ret |-> None, panic |-> "debug_assert"]
        ELSE IF p.ok
        THEN IF p.pos < Len(o.values)
             THEN [obj |-> o, ret |-> Some(o.values[p.pos + 1]), panic |-> "none"]
             ELSE [obj |-> o, ret |-> None, panic |-> "unwrap"]
        ELSE [obj |-> Object(VecInsert(o.keys, p.pos, k), VecInsert(o.values, p.pos, v)),
              ret |-> None, panic |-> "none"]

\* An insert that puts an absent key after the last key.
ObjectInsertAtEnd(o, k, v, dbg) ==
    LET p == GetIndexForKey(o, k, dbg)
    IN  IF p.fail THEN [obj |-> o, ret |-> None, panic |-> "debug_assert"]
        ELSE IF p.ok
        THEN IF p.pos < Len(o.values)
             THEN [obj |-> Object(o.keys, VecReplace(o.values, p.pos, v)),
                   ret |-> Some(o.values[p.pos + 1]), panic |-> "none"]
             ELSE [obj |-> o, ret |-> None, panic |-> "unwrap"]
        ELSE [obj |-> Object(Append(o.keys, k), Append(o.values, v)),
              ret |-> None, panic |-> "none"]

ObjectInsert(o, k, v, dbg) ==
    LET p == GetIndexForKey(o, k, dbg)
    IN  IF p.fail THEN [obj |-> o, ret |-> None, panic |-> "debug_assert"]
        ELSE IF p.ok
        THEN IF p.pos < Len(o.values)
             THEN [obj |-> Object(o.keys, VecReplace(o.values, p.pos, v)),
                   ret |-> Some(o.values[p.pos + 1]), panic |-> "none"]
             ELSE [obj |-> o, ret |-> None, panic |-> "unwrap"]
        ELSE [obj |-> Object(VecInsert(o.keys, p.pos, k), VecInsert(o.values, p.pos, v)),
              ret |-> None, panic |-> "none"]

\* A remove that takes the key out and leaves its value behind.
ObjectRemoveKeyOnly(o, k, dbg) ==
    LET p == GetIndexForKey(o, k, dbg)
    IN  IF p.fail THEN [obj |-> o, ret |-> None, panic |-> "debug_assert"]
        ELSE IF p.ok
        THEN [obj |-> Object(VecRemove(o.keys, p.pos).vec, o.values),
              ret |-> VecGet(o.values, p.pos), panic |-> "none"]
        ELSE [obj |-> o, ret |-> None, panic |-> "none"]

ObjectRemove(o, k, dbg) ==
    LET p == GetIndexForKey(o, k, dbg)
    IN  IF p.fail THEN [obj |-> o, ret |-> None, panic |-> "debug_assert"]
        ELSE IF p.ok
        THEN [obj |-> Object(VecRemove(o.keys, p.pos).vec, VecRemove(o.values, p.pos).vec),
              ret |-> VecRemove(o.values, p.pos).ret, panic |-> "none"]
        ELSE [obj |-> o, ret |-> None, panic |-> "none"]

\* An append that lets the argument's entry replace the receiver's entry of
\* the same key.
ObjectAppendReplacing(a, b) ==
    LET kept == {i \in 1..Len(a.keys) : \A j \in 1..Len(b.keys) : b.keys[j] # a.keys[i]}
        Pick(s, i) == CHOOSE h \in s : Cardinality({g \in s : g < h}) = i - 1
        ks == [i \in 1..Cardinality(kept) |-> a.keys[Pick(kept, i)]]
        vs == [i \in 1..Cardinality(kept) |-> a.values[Pick(kept, i)]]
    IN  {[self |-> Object(s[1], s[2]), other |-> ObjectNew] :
            s \in DualSort(ks \o b.keys, vs \o b.values)}

\* Object::append: every outcome [self, other] of draining b into a.
ObjectAppend(a, b) ==
    {[self |-> Object(s[1], s[2]), other |-> ObjectNew] :
        s \in DualSort(a.keys \o b.keys, a.values \o b.values)}

\* ------------------------------------------------------------------ Entry
\* A handle: kind "vacant" carries key and idx, kind "occupied" carries idx
\* (its key field only remembers the key entry() was called with).
NoEntry == [kind |-> "none", idx |-> 0, key |-> 0]

\* An entry whose Vacant handle carries the position after the last key.
ObjectEntryVacantAtEnd(o, k, dbg) ==
    LET p == GetIndexForKey(o, k, dbg)
    IN  IF p.fail THEN [entry |-> NoEntry, panic |-> "debug_assert"]
        ELSE IF p.ok
        THEN [entry |-> [kind |-> "occupied", idx |-> p.pos, key |-> k], panic |-> "none"]
        ELSE [entry |-> [kind |-> "vacant", idx |-> Len(o.keys), key |-> k], panic |-> "none"]

ObjectEntry(o, k, dbg) ==
    LET p == GetIndexForKey(o, k, dbg)
    IN  IF p.fail THEN [entry |-> NoEntry, panic |-> "debug_assert"]
        ELSE IF p.ok
        THEN [entry |-> [kind |-> "occupied", idx |-> p.pos, key |-> k], panic |-> "none"]
        ELSE [entry |-> [kind |-> "vacant", idx |-> p.pos, key |-> k], panic |-> "none"]

\* &Value / &String obtained by get(idx).unwrap()
Unwrap(opt) ==
    IF opt.some THEN [ret |-> opt, panic |-> "none"] ELSE [ret |-> None, panic |-> "unwrap"]

VacantEntryInsert(o, e, v) ==
    LET ks == VecInsert(o.keys, e.idx, e.key)
        vs == VecInsert(o.values, e.idx, v)
        r  == Unwrap(VecGet(vs, e.idx))
    IN  [obj |-> Object(ks, vs), ret |-> r.ret, panic |-> r.panic]

OccupiedEntryKey(o, e) == Unwrap(VecGet(o.keys, e.idx))

OccupiedEntryGet(o, e) == Unwrap(VecGet(o.values, e.idx))

OccupiedEntryGetMut(o, e) == Unwrap(VecGet(o.values, e.idx))

OccupiedEntryIntoMut(o, e) == Unwrap(VecGet(o.values, e.idx))

OccupiedEntryInsert(o, e, v) ==
    LET r == OccupiedEntryGetMut(o, e)
    IN  IF r.panic # "none" THEN [obj |-> o, ret |-> None, panic |-> r.panic]
        ELSE [obj |-> Object(o.keys, VecReplace(o.values, e.idx, v)),
              ret |-> r.ret, panic |-> "none"]

OccupiedEntryRemove(o, e) ==
    LET rk == VecRemove(o.keys, e.idx)
        rv == VecRemove(o.values, e.idx)
    IN  IF ~rk.ret.some THEN [obj |-> o, ret |-> None, panic |-> "unwrap"]
        ELSE IF ~rv.ret.some
        THEN [obj |-> Object(rk.vec, o.values), ret |-> None, panic |-> "unwrap"]
        ELSE [obj |-> Object(rk.vec, rv.vec), ret |-> rv.ret, panic |-> "none"]

EntryKey(o, e) ==
    IF e.kind = "vacant" THEN [ret |-> Some(e.key), panic |-> "none"]
    ELSE OccupiedEntryKey(o, e)

\* called tells whether a default closure was called (or_insert takes a
\* value, or_insert_with a closure).
EntryOrInsert(o, e, d) ==
    IF e.kind = "vacant"
    THEN LET r == VacantEntryInsert(o, e, d)
         IN  [obj |-> r.obj, ret |-> r.ret, panic |-> r.panic, called |-> FALSE]
    ELSE LET r == OccupiedEntryIntoMut(o, e)
         IN  [obj |-> o, ret |-> r.ret, panic |-> r.panic, called |-> FALSE]

\* An or_insert_with that calls the closure before it looks at the entry.
EntryOrInsertWithEager(o, e, d) ==
    IF e.kind = "vacant"
    THEN LET r == VacantEntryInsert(o, e, d)
         IN  [obj |-> r.obj, ret |-> r.ret, panic |-> r.panic, called |-> TRUE]
    ELSE LET r == OccupiedEntryIntoMut(o, e)
         IN  [obj |-> o, ret |-> r.ret, panic |-> r.panic, called |-> TRUE]

EntryOrInsertWith(o, e, d) ==
    IF e.kind = "vacant"
    THEN LET r == VacantEntryInsert(o, e, d)
         IN  [obj |-> r.obj, ret |-> r.ret, panic |-> r.panic, called |-> TRUE]
    ELSE LET r == OccupiedEntryIntoMut(o, e)
         IN  [obj |-> o, ret |-> r.ret, panic |-> r.panic, called |-> FALSE]

\* ------------------------------------------------------------------ Iter
\* Two Vector iterators side by side: keys over kf..kb, values over vf..vb.
NoIter == [kind |-> "none", kf |-> 0, kb |-> 0, vf |-> 0, vb |-> 0]

ObjectIter(o) ==
    [kind |-> "iter", kf |-> 0, kb |-> Len(o.keys), vf |-> 0, vb |-> Len(o.values)]

ObjectIterMut(o) ==
    [kind |-> "iter_mut", kf |-> 0, kb |-> Len(o.keys), vf |-> 0, vb |-> Len(o.values)]

Pair(k, v) == [key |-> k, value |-> v]

IterNext(o, it, dbg) ==
    IF it.kf < it.kb
    THEN IF it.vf < it.vb
         THEN [iter |-> [it EXCEPT !.kf = @ + 1, !.vf = @ + 1],
               ret |-> Some(Pair(o.keys[it.kf + 1], o.values[it.vf + 1])), panic |-> "none"]
         ELSE [iter |-> [it EXCEPT !.kf = @ + 1], ret |-> None, panic |-> "iter_unwrap"]
    ELSE IF dbg /\ it.vf < it.vb
         THEN [iter |-> [it EXCEPT !.vf = @ + 1], ret |-> None, panic |-> "iter_assert"]
         ELSE [iter |-> it, ret |-> None, panic |-> "none"]

\* A next_back that takes the key from the back and the value from the front.
IterNextBackFrontValue(o, it, dbg) ==
    IF it.kf < it.kb
    THEN IF it.vf < it.vb
         THEN [iter |-> [it EXCEPT !.kb = @ - 1, !.vf = @ + 1],
               ret |-> Some(Pair(o.keys[it.kb], o.values[it.vf + 1])), panic |-> "none"]
         ELSE [iter |-> [it EXCEPT !.kb = @ - 1], ret |-> None, panic |-> "iter_unwrap"]
    ELSE IF dbg /\ it.vf < it.vb
         THEN [iter |-> [it EXCEPT !.vf = @ + 1], ret |-> None, panic |-> "iter_assert"]
         ELSE [iter |-> it, ret |-> None, panic |-> "none"]

IterNextBack(o, it, dbg) ==
    IF it.kf < it.kb
    THEN IF it.vf < it.vb
         THEN [iter |-> [it EXCEPT !.kb = @ - 1, !.vb = @ - 1],
               ret |-> Some(Pair(o.keys[it.kb], o.values[it.vb])), panic |-> "none"]
         ELSE [iter |-> [it EXCEPT !.kb = @ - 1], ret |-> None, panic |-> "iter_unwrap"]
    ELSE IF dbg /\ it.vf < it.vb
         THEN [iter |-> [it EXCEPT !.vb = @ - 1], ret |-> None, panic |-> "iter_assert"]
         ELSE [iter |-> it, ret |-> None, panic |-> "none"]

\* ------------------------------------------------------------------ Index
\* An index is positional (usize) or string-like (str; String and &T
\* delegate to it).
Usize(n) == [kind |-> "usize", at |-> n]
Str(k) == [kind |-> "str", at |-> k]
Indices == {Usize(n) : n \in 0..MaxArr} \cup {Str(k) : k \in KeySpace}

UsizeIndexInto(i, tag, a) ==
    IF tag = "Array" THEN [ret |-> VecGet(a, i), panic |-> "none"]
    ELSE [ret |-> None, panic |-> "none"]

StrIndexInto(k, tag, o, dbg) ==
    IF tag = "Object" THEN ObjectGet(o, k, dbg)
    ELSE [ret |-> None, panic |-> "none"]

IndexInto(ix, tag, a, o, dbg) ==
    IF ix.kind = "usize" THEN UsizeIndexInto(ix.at, tag, a)
    ELSE StrIndexInto(ix.at, tag, o, dbg)

\* <Value as ops::Index>::index: unwrap_or(&Value::Null)
ValueIndex(ix, tag, a, o, dbg) ==
    LET r == IndexInto(ix, tag, a, o, dbg)
    IN  [ret |-> IF r.ret.some THEN r.ret.v ELSE Null, panic |-> r.panic]

\* A positional write index that degrades to Null the way the read path does.
UsizeIndexOrInsertLenient(i, tag, a) ==
    IF tag = "Array"
    THEN LET r == VecGet(a, i)
         IN  [ret |-> IF r.some THEN r.v ELSE Null, panic |-> "none"]
    ELSE [ret |-> Null, panic |-> "none"]

UsizeIndexOrInsert(i, tag, a) ==
    IF tag = "Array"
    THEN LET r == Unwrap(VecGet(a, i))
         IN  [ret |-> IF r.ret.some THEN r.ret.v ELSE Null, panic |-> r.panic]
    ELSE [ret |-> Null, panic |-> "panic"]

StrIndexOrInsert(k, tag, o, dbg) ==
    IF tag = "Object"
    THEN LET e == ObjectEntry(o, k, dbg)
         IN  IF e.panic # "none" THEN [obj |-> o, ret |-> Null, panic |-> e.panic]
             ELSE LET r == EntryOrInsert(o, e.entry, Null)
                  IN  [obj |-> r.obj, ret |-> IF r.ret.some THEN r.ret.v ELSE Null,
                       panic |-> r.panic]
    ELSE [obj |-> o, ret |-> Null, panic |-> "panic"]

\* ------------------------------------------------------------------ Number
\* u64 and i64 at a width of Bits bits.
U64Max == 2 ^ Bits - 1
I64Max == 2 ^ (Bits - 1) - 1
I64Min == 0 - 2 ^ (Bits - 1)

\* f64 payloads, counted in halves: -1.5, -0.5, 0.0, 0.5, 5.0.
FloatSpace == {0 - 3, 0 - 1, 0, 1, 10}

NoNumber == [variant |-> "none"]
NumberPosInt(u) == [variant |-> "PosInt", u |-> u]
NumberNegInt(i) == [variant |-> "NegInt", i |-> i]
NumberFloat(f) == [variant |-> "Float", f |-> f]

\* Every value of the enum: the NegInt variant can hold any i64.
Numbers ==
    {NumberPosInt(u) : u \in 0..U64Max} \cup {NumberNegInt(i) : i \in I64Min..I64Max}
        \cup {NumberFloat(f) : f \in FloatSpace}

\* u as i64: the two's complement reading of the same bits.
AsI64(u) == IF u > I64Max THEN u - 2 ^ Bits ELSE u

NumberIsI64(n) ==
    IF n.variant = "PosInt" THEN n.u <= I64Max
    ELSE n.variant = "NegInt"

NumberIsU64(n) == n.variant = "PosInt"

NumberIsF64(n) == n.variant = "Float"

\* An as_i64 that casts a PosInt without looking at its size.
NumberAsI64Unchecked(n) ==
    IF n.variant = "PosInt" THEN Some(AsI64(n.u))
    ELSE IF n.variant = "NegInt" THEN Some(n.i)
    ELSE None

NumberAsI64(n) ==
    IF n.variant = "PosInt"
    THEN IF n.u <= I64Max THEN Some(AsI64(n.u)) ELSE None
    ELSE IF n.variant = "NegInt" THEN Some(n.i)
    ELSE None

NumberAsU64(n) == IF n.variant = "PosInt" THEN Some(n.u) ELSE None

\* ------------------------------------------------------------------ serde_json
\* serde_json::Number, by the contract of its accessors: a finite float, or
\* an integer x in i64::MIN..u64::MAX.
JsonInt(x) == [float |-> FALSE, x |-> x]
JsonFloat(f) == [float |-> TRUE, x |-> f]
JsonNumbers == {JsonInt(x) : x \in I64Min..U64Max} \cup {JsonFloat(f) : f \in FloatSpace}

JsonNumberIsF64(n) == n.float
JsonNumberIsU64(n) == ~n.float /\ n.x >= 0
JsonNumberIsI64(n) == ~n.float /\ n.x <= I64Max
JsonNumberAsF64(n) == IF n.float THEN Some(n.x) ELSE Some(2 * n.x)
JsonNumberAsU64(n) == IF JsonNumberIsU64(n) THEN Some(n.x) ELSE None
JsonNumberAsI64(n) == IF JsonNumberIsI64(n) THEN Some(n.x) ELSE None

\* A conversion that asks is_i64 before is_u64.
NumberFromSignedFirst(n) ==
    IF JsonNumberIsF64(n)
    THEN LET r == Unwrap(JsonNumberAsF64(n))
         IN  [num |-> IF r.ret.some THEN NumberFloat(r.ret.v) ELSE NoNumber, panic |-> r.panic]
    ELSE IF JsonNumberIsI64(n)
    THEN LET r == Unwrap(JsonNumberAsI64(n))
         IN  [num |-> IF r.ret.some THEN NumberNegInt(r.ret.v) ELSE NoNumber, panic |-> r.panic]
    ELSE LET r == Unwrap(JsonNumberAsU64(n))
         IN  [num |-> IF r.ret.some THEN NumberPosInt(r.ret.v) ELSE NoNumber, panic |-> r.panic]

\* <Number as From<JsonNumber>>::from
NumberFrom(n) ==
    IF JsonNumberIsF64(n)
    THEN LET r == Unwrap(JsonNumberAsF64(n))
         IN  [num |-> IF r.ret.some THEN NumberFloat(r.ret.v) ELSE NoNumber, panic |-> r.panic]
    ELSE IF JsonNumberIsU64(n)
    THEN LET r == Unwrap(JsonNumberAsU64(n))
         IN  [num |-> IF r.ret.some THEN NumberPosInt(r.ret.v) ELSE NoNumber, panic |-> r.panic]
    ELSE LET r == Unwrap(JsonNumberAsI64(n))
         IN  [num |-> IF r.ret.some THEN NumberNegInt(r.ret.v) ELSE NoNumber, panic |-> r.panic]

\* serde_json::Value.  The items of an Array and the values of an Object are
\* scalars here: Null or a positive integer.
NoJson == [tag |-> "none"]
JsonNull == [tag |-> "Null"]
JsonBool == [tag |-> "Bool"]
JsonString == [tag |-> "String"]
JsonNumber(n) == [tag |-> "Number", n |-> n]
JsonArray(items) == [tag |-> "Array", items |-> items]
JsonObject(pairs) == [tag |-> "Object", pairs |-> pairs]

JsonItems == {JsonNull} \cup {JsonNumber(JsonInt(x)) : x \in 1..MaxVal}

\* The (key, value) pairs a source object hands over, in the order it hands
\* them over; keys may repeat.
JsonPairs == UNION {[1..n -> KeySpace \X JsonItems] : n \in 0..MaxPairs}

JsonValues ==
    {JsonNull, JsonBool, JsonString}
        \cup {JsonNumber(n) : n \in JsonNumbers}
        \cup {JsonArray(items) : items \in UNION {[1..n -> JsonItems] : n \in 0..MaxArr}}
        \cup {JsonObject(pairs) : pairs \in JsonPairs}

\* Value::Number(n)
ValueNumber(n) ==
    IF n.variant = "PosInt" THEN PosInt(n.u) ELSE [tag |-> "Number", num |-> n]

\* item.into() for a scalar item
ValueFrom(j) ==
    IF j.tag = "Number"
    THEN LET r == NumberFrom(j.n)
         IN  [val |-> IF r.panic = "none" THEN ValueNumber(r.num) ELSE Null, panic |-> r.panic]
    ELSE [val |-> Null, panic |-> "none"]

\* ------------------------------------------------------------------ state
VARIABLES
    root,     \* the variant of the Value at hand
    arr,      \* its elements when it is Value::Array
    keys,     \* Object.keys when it is Value::Object
    values,   \* Object.values when it is Value::Object
    other,    \* the Object last passed to append, as append left it
    entry,    \* the live Entry handle, if any
    iter,     \* the live Iter / IterMut, if any
    debug,    \* whether the build has debug assertions
    panic,    \* the panic that ended the run, if any: the call and the kind
    last,     \* the last completed call: its arguments and its result
    json,     \* the serde_json value that Value::from is converting, if any
    pc,       \* where Value::from stands: "from", "loop", "done"; "idle" outside it
    at,       \* how many elements of json the loop of Value::from has consumed
    num       \* the Number at hand, if any

vars == <<root, arr, keys, values, other, entry, iter, debug, panic, last, json, pc, at, num>>

Self == Object(keys, values)

\* arg is append's argument as it was passed; for a get-or-insert, after
\* names the call completed just before it when that was a get-or-insert of
\* the same key.
Call(op, k, v, r, c, arg, aft) ==
    [op |-> op, key |-> k, val |-> v, ret |-> r, called |-> c, arg |-> arg, after |-> aft]

GetOrInsert == {"or_insert", "or_insert_with"}

\* Objects that insert calls build, to pass to append.
OtherObjects ==
    UNION {{Object(ks, vs) : ks \in {s \in [1..n -> KeySpace] : StrictlyIncreasing(s)},
                             vs \in [1..n -> Vals]} : n \in 0..MaxOtherLen}

Arrays == UNION {[1..n -> Vals] : n \in 0..MaxArr}

NoPanic == [op |-> "", kind |-> "none"]

Init ==
    /\ root \in ScalarTags \cup {"Array", "Object"}
    /\ arr \in (IF root = "Array" THEN Arrays ELSE {<<>>})
    /\ keys = <<>>
    /\ values = <<>>
    /\ other = ObjectNew
    /\ entry = NoEntry
    /\ iter = NoIter
    /\ debug \in BOOLEAN
    /\ panic = NoPanic
    /\ last = Call("new", 0, Null, None, FALSE, ObjectNew, "")
    /\ json = NoJson
    /\ pc = "idle"
    /\ at = 0
    /\ num = NoNumber

\* A call that returned: record it.  A call that panicked: the run ends.
Done(op, k, v, r, c, arg) ==
    /\ last' = Call(op, k, v, r, c, arg,
                  IF op \in GetOrInsert /\ last.op \in GetOrInsert /\ last.key = k
                  THEN last.op ELSE "")
    /\ panic' = NoPanic

Panicked(op, kind) ==
    /\ panic' = [op |-> op, kind |-> kind]
    /\ UNCHANGED last

Running == panic = NoPanic

\* The model stops growing an Object at MaxLen entries.
Fits(o) == Len(o.keys) <= MaxLen

\* Nothing borrows the Value: between the creation of a handle or an
\* iterator and its drop, the calls made are calls on that handle or iterator.
Unborrowed == Running /\ entry.kind = "none" /\ iter.kind = "none"

\* as_object() / as_object_mut() is Some
Exclusive == Unborrowed /\ root = "Object"

Shared == Unborrowed /\ root = "Object"

\* ------------------------------------------------------------------ Object calls
InsertCall(k, v) ==
    /\ Exclusive
    /\ LET r == ObjectInsert(Self, k, v, debug)
       IN  /\ Fits(r.obj)
           /\ keys' = r.obj.keys
           /\ values' = r.obj.values
           /\ IF r.panic = "none"
              THEN Done("insert", k, v, r.ret, FALSE, ObjectNew)
              ELSE Panicked("insert", r.panic)
    /\ UNCHANGED <<root, arr, other, entry, iter, debug, json, pc, at, num>>

RemoveCall(k) ==
    /\ Exclusive
    /\ LET r == ObjectRemove(Self, k, debug)
       IN  /\ keys' = r.obj.keys
           /\ values' = r.obj.values
           /\ IF r.panic = "none"
              THEN Done("remove", k, Null, r.ret, FALSE, ObjectNew)
              ELSE Panicked("remove", r.panic)
    /\ UNCHANGED <<root, arr, other, entry, iter, debug, json, pc, at, num>>

GetCall(k) ==
    /\ Shared
    /\ LET r == ObjectGet(Self, k, debug)
       IN  IF r.panic = "none"
           THEN Done("get", k, Null, r.ret, FALSE, ObjectNew)
           ELSE Panicked("get", r.panic)
    /\ UNCHANGED <<root, arr, keys, values, other, entry, iter, debug, json, pc, at, num>>

GetMutCall(k) ==
    /\ Exclusive
    /\ LET r == ObjectGet(Self, k, debug)
       IN  IF r.panic = "none"
           THEN Done("get_mut", k, Null, r.ret, FALSE, ObjectNew)
           ELSE Panicked("get_mut", r.panic)
    /\ UNCHANGED <<root, arr, keys, values, other, entry, iter, debug, json, pc, at, num>>

ContainsKeyCall(k) ==
    /\ Shared
    /\ LET r == ObjectContainsKey(Self, k, debug)
       IN  IF r.panic = "none"
           THEN Done("contains_key", k, Null, [bool |-> r.ret], FALSE, ObjectNew)
           ELSE Panicked("contains_key", r.panic)
    /\ UNCHANGED <<root, arr, keys, values, other, entry, iter, debug, json, pc, at, num>>

\* self.append(&mut b)
AppendCall(b) ==
    /\ Exclusive
    /\ Len(keys) + Len(b.keys) <= MaxLen
    /\ \E r \in ObjectAppend(Self, b) :
        /\ keys' = r.self.keys
        /\ values' = r.self.values
        /\ other' = r.other
    /\ Done("append", 0, Null, None, FALSE, b)
    /\ UNCHANGED <<root, arr, entry, iter, debug, json, pc, at, num>>

\* Object::clear is unimplemented!()
ObjectClear(o) == [obj |-> o, panic |-> "unimplemented"]

ClearCall ==
    /\ Exclusive
    /\ LET r == ObjectClear(Self)
       IN  /\ keys' = r.obj.keys
           /\ values' = r.obj.values
           /\ IF r.panic = "none"
              THEN Done("clear", 0, Null, None, FALSE, ObjectNew)
              ELSE Panicked("clear", r.panic)
    /\ UNCHANGED <<root, arr, other, entry, iter, debug, json, pc, at, num>>

\* ------------------------------------------------------------------ Entry calls
EntryCall(k) ==
    /\ Exclusive
    /\ LET r == ObjectEntry(Self, k, debug)
       IN  /\ entry' = r.entry
           /\ IF r.panic = "none"
              THEN Done("entry", k, Null, [kind |-> r.entry.kind], FALSE, ObjectNew)
              ELSE Panicked("entry", r.panic)
    /\ UNCHANGED <<root, arr, keys, values, other, iter, debug, json, pc, at, num>>

Held == Running /\ entry.kind # "none"

KeyCall ==
    /\ Held
    /\ LET r == EntryKey(Self, entry)
       IN  IF r.panic = "none"
           THEN Done("key", entry.key, Null, r.ret, FALSE, ObjectNew)
           ELSE Panicked("key", r.panic)
    /\ UNCHANGED <<root, arr, keys, values, other, entry, iter, debug, json, pc, at, num>>

VacantInsertCall(v) ==
    /\ Held
    /\ entry.kind = "vacant"
    /\ LET r == VacantEntryInsert(Self, entry, v)
       IN  /\ Fits(r.obj)
           /\ keys' = r.obj.keys
           /\ values' = r.obj.values
           /\ IF r.panic = "none"
              THEN Done("vacant_insert", entry.key, v, r.ret, FALSE, ObjectNew)
              ELSE Panicked("vacant_insert", r.panic)
    /\ entry' = NoEntry
    /\ UNCHANGED <<root, arr, other, iter, debug, json, pc, at, num>>

OccupiedGetCall ==
    /\ Held
    /\ entry.kind = "occupied"
    /\ LET r == OccupiedEntryGet(Self, entry)
       IN  IF r.panic = "none"
           THEN Done("occupied_get", entry.key, Null, r.ret, FALSE, ObjectNew)
           ELSE Panicked("occupied_get", r.panic)
    /\ UNCHANGED <<root, arr, keys, values, other, entry, iter, debug, json, pc, at, num>>

OccupiedGetMutCall ==
    /\ Held
    /\ entry.kind = "occupied"
    /\ LET r == OccupiedEntryGetMut(Self, entry)
       IN  IF r.panic = "none"
           THEN Done("occupied_get_mut", entry.key, Null, r.ret, FALSE, ObjectNew)
           ELSE Panicked("occupied_get_mut", r.panic)
    /\ UNCHANGED <<root, arr, keys, values, other, entry, iter, debug, json, pc, at, num>>

OccupiedIntoMutCall ==
    /\ Held
    /\ entry.kind = "occupied"
    /\ LET r == OccupiedEntryIntoMut(Self, entry)
       IN  IF r.panic = "none"
           THEN Done("into_mut", entry.key, Null, r.ret, FALSE, ObjectNew)
           ELSE Panicked("into_mut", r.panic)
    /\ entry' = NoEntry
    /\ UNCHANGED <<root, arr, keys, values, other, iter, debug, json, pc, at, num>>

OccupiedInsertCall(v) ==
    /\ Held
    /\ entry.kind = "occupied"
    /\ LET r == OccupiedEntryInsert(Self, entry, v)
       IN  /\ keys' = r.obj.keys
           /\ values' = r.obj.values
           /\ IF r.panic = "none"
              THEN Done("occupied_insert", entry.key, v, r.ret, FALSE, ObjectNew)
              ELSE Panicked("occupied_insert", r.panic)
    /\ UNCHANGED <<root, arr, other, entry, iter, debug, json, pc, at, num>>

OccupiedRemoveCall ==
    /\ Held
    /\ entry.kind = "occupied"
    /\ LET r == OccupiedEntryRemove(Self, entry)
       IN  /\ keys' = r.obj.keys
           /\ values' = r.obj.values
           /\ IF r.panic = "none"
              THEN Done("occupied_remove", entry.key, Null, r.ret, FALSE, ObjectNew)
              ELSE Panicked("occupied_remove", r.panic)
    /\ UNCHANGED <<root, arr, other, entry, iter, debug, json, pc, at, num>>

\* self.entry(k).or_insert(d), on the Entry as entry() returned it
ObjectEntryOrInsert(o, k, d, dbg) ==
    LET e == ObjectEntry(o, k, dbg)
    IN  IF e.panic # "none"
        THEN [obj |-> o, ret |-> None, panic |-> e.panic, called |-> FALSE]
        ELSE EntryOrInsert(o, e.entry, d)

\* self.entry(k).or_insert_with(|| d)
ObjectEntryOrInsertWith(o, k, d, dbg) ==
    LET e == ObjectEntry(o, k, dbg)
    IN  IF e.panic # "none"
        THEN [obj |-> o, ret |-> None, panic |-> e.panic, called |-> FALSE]
        ELSE EntryOrInsertWith(o, e.entry, d)

OrInsertCall(k, d) ==
    /\ Exclusive
    /\ LET r == ObjectEntryOrInsert(Self, k, d, debug)
       IN  /\ Fits(r.obj)
           /\ keys' = r.obj.keys
           /\ values' = r.obj.values
           /\ IF r.panic = "none"
              THEN Done("or_insert", k, d, r.ret, r.called, ObjectNew)
              ELSE Panicked("or_insert", r.panic)
    /\ UNCHANGED <<root, arr, other, entry, iter, debug, json, pc, at, num>>

OrInsertWithCall(k, d) ==
    /\ Exclusive
    /\ LET r == ObjectEntryOrInsertWith(Self, k, d, debug)
       IN  /\ Fits(r.obj)
           /\ keys' = r.obj.keys
           /\ values' = r.obj.values
           /\ IF r.panic = "none"
              THEN Done("or_insert_with", k, d, r.ret, r.called, ObjectNew)
              ELSE Panicked("or_insert_with", r.panic)
    /\ UNCHANGED <<root, arr, other, entry, iter, debug, json, pc, at, num>>

DropEntry ==
    /\ Held
    /\ entry' = NoEntry
    /\ Done("drop", 0, Null, None, FALSE, ObjectNew)
    /\ UNCHANGED <<root, arr, keys, values, other, iter, debug, json, pc, at, num>>

\* ------------------------------------------------------------------ Iter calls
IterCall ==
    /\ Shared
    /\ iter' = ObjectIter(Self)
    /\ Done("iter", 0, Null, None, FALSE, ObjectNew)
    /\ UNCHANGED <<root, arr, keys, values, other, entry, debug, json, pc, at, num>>

IterMutCall ==
    /\ Exclusive
    /\ iter' = ObjectIterMut(Self)
    /\ Done("iter_mut", 0, Null, None, FALSE, ObjectNew)
    /\ UNCHANGED <<root, arr, keys, values, other, entry, debug, json, pc, at, num>>

NextCall ==
    /\ Running
    /\ iter.kind # "none"
    /\ LET r == IterNext(Self, iter, debug)
       IN  /\ iter' = r.iter
           /\ IF r.panic = "none"
              THEN Done("next", 0, Null, r.ret, FALSE, ObjectNew)
              ELSE Panicked("next", r.panic)
    /\ UNCHANGED <<root, arr, keys, values, other, entry, debug, json, pc, at, num>>

NextBackCall ==
    /\ Running
    /\ iter.kind # "none"
    /\ LET r == IterNextBack(Self, iter, debug)
       IN  /\ iter' = r.iter
           /\ IF r.panic = "none"
              THEN Done("next_back", 0, Null, r.ret, FALSE, ObjectNew)
              ELSE Panicked("next_back", r.panic)
    /\ UNCHANGED <<root, arr, keys, values, other, entry, debug, json, pc, at, num>>

DropIter ==
    /\ Running
    /\ iter.kind # "none"
    /\ iter' = NoIter
    /\ Done("drop", 0, Null, None, FALSE, ObjectNew)
    /\ UNCHANGED <<root, arr, keys, values, other, entry, debug, json, pc, at, num>>

\* ------------------------------------------------------------------ Index calls
\* value[ix]
IndexCall(ix) ==
    /\ Unborrowed
    /\ LET r == ValueIndex(ix, root, arr, Self, debug)
       IN  IF r.panic = "none"
           THEN Done("index_" \o ix.kind, ix.at, Null, r.ret, FALSE, ObjectNew)
           ELSE Panicked("index_" \o ix.kind, r.panic)
    /\ UNCHANGED <<root, arr, keys, values, other, entry, iter, debug, json, pc, at, num>>

\* &mut value[ix]
IndexMutCall(ix) ==
    /\ Unborrowed
    /\ IF ix.kind = "usize"
       THEN LET r == UsizeIndexOrInsert(ix.at, root, arr)
            IN  /\ IF r.panic = "none"
                   THEN Done("index_mut_usize", ix.at, Null, r.ret, FALSE, ObjectNew)
                   ELSE Panicked("index_mut_usize", r.panic)
                /\ UNCHANGED <<keys, values>>
       ELSE LET r == StrIndexOrInsert(ix.at, root, Self, debug)
            IN  /\ Fits(r.obj)
                /\ keys' = r.obj.keys
                /\ values' = r.obj.values
                /\ IF r.panic = "none"
                   THEN Done("index_mut_str", ix.at, Null, r.ret, FALSE, ObjectNew)
                   ELSE Panicked("index_mut_str", r.panic)
    /\ UNCHANGED <<root, arr, other, entry, iter, debug, json, pc, at, num>>

\* ------------------------------------------------------------------ Value::from
\* The match of Value::from: a scalar is converted at once, an Array or an
\* Object starts empty and is filled by the loop.
FromMatch ==
    /\ Running
    /\ pc = "from"
    /\ root' = json.tag
    /\ arr' = <<>>
    /\ keys' = <<>>
    /\ values' = <<>>
    /\ IF json.tag = "Number"
       THEN LET r == NumberFrom(json.n)
            IN  /\ num' = r.num
                /\ IF r.panic = "none"
                   THEN Done("from", 0, Null, None, FALSE, ObjectNew)
                   ELSE Panicked("from", r.panic)
       ELSE /\ num' = num
            /\ Done("from", 0, Null, None, FALSE, ObjectNew)
    /\ pc' = IF json.tag \in {"Array", "Object"} THEN "loop" ELSE "done"
    /\ UNCHANGED <<other, entry, iter, debug, json, at>>

\* v.push_back(item.into())
FromArrayItem ==
    /\ Running
    /\ pc = "loop"
    /\ root = "Array"
    /\ at < Len(json.items)
    /\ LET r == ValueFrom(json.items[at + 1])
       IN  /\ arr' = IF r.panic = "none" THEN Append(arr, r.val) ELSE arr
           /\ IF r.panic = "none"
              THEN Done("push_back", at, r.val, None, FALSE, ObjectNew)
              ELSE Panicked("push_back", r.panic)
    /\ at' = at + 1
    /\ UNCHANGED <<root, keys, values, other, entry, iter, debug, json, pc, num>>

\* o.insert(k, v.into())
FromObjectItem ==
    /\ Running
    /\ pc = "loop"
    /\ root = "Object"
    /\ at < Len(json.pairs)
    /\ LET k == json.pairs[at + 1][1]
           v == ValueFrom(json.pairs[at + 1][2])
           r == ObjectInsert(Self, k, v.val, debug)
       IN  IF v.panic # "none"
           THEN /\ UNCHANGED <<keys, values>>
                /\ Panicked("from", v.panic)
           ELSE /\ keys' = r.obj.keys
                /\ values' = r.obj.values
                /\ IF r.panic = "none"
                   THEN Done("insert", k, v.val, r.ret, FALSE, ObjectNew)
                   ELSE Panicked("insert", r.panic)
    /\ at' = at + 1
    /\ UNCHANGED <<root, arr, other, entry, iter, debug, json, pc, num>>

\* Value::Array(v) / Value::Object(o): the loop is over
FromReturn ==
    /\ Running
    /\ pc = "loop"
    /\ at = (IF root = "Array" THEN Len(json.items) ELSE Len(json.pairs))
    /\ pc' = "done"
    /\ Done("return", 0, Null, None, FALSE, ObjectNew)
    /\ UNCHANGED <<root, arr, keys, values, other, entry, iter, debug, json, at, num>>

\* ------------------------------------------------------------------ Number calls
\* The result of a predicate is recorded as [bool |-> b].
NumberCall(op, r) ==
    /\ Running
    /\ pc = "number"
    /\ Done(op, 0, Null, r, FALSE, ObjectNew)
    /\ UNCHANGED <<root, arr, keys, values, other, entry, iter, debug, json, pc, at, num>>

IsI64Call == NumberCall("is_i64", [bool |-> NumberIsI64(num)])

IsU64Call == NumberCall("is_u64", [bool |-> NumberIsU64(num)])

IsF64Call == NumberCall("is_f64", [bool |-> NumberIsF64(num)])

AsI64Call == NumberCall("as_i64", NumberAsI64(num))

AsU64Call == NumberCall("as_u64", NumberAsU64(num))

\* ------------------------------------------------------------------ specification
NextNoAppend ==
    \/ \E k \in KeySpace, v \in Vals : InsertCall(k, v)
    \/ \E k \in KeySpace : RemoveCall(k)
    \/ \E k \in KeySpace : GetCall(k)
    \/ \E k \in KeySpace : GetMutCall(k)
    \/ \E k \in KeySpace : ContainsKeyCall(k)
    \/ ClearCall
    \/ \E k \in KeySpace : EntryCall(k)
    \/ KeyCall
    \/ \E v \in Vals : VacantInsertCall(v)
    \/ OccupiedGetCall
    \/ OccupiedGetMutCall
    \/ OccupiedIntoMutCall
    \/ \E v \in Vals : OccupiedInsertCall(v)
    \/ OccupiedRemoveCall
    \/ \E k \in KeySpace, d \in Vals : OrInsertCall(k, d)
    \/ \E k \in KeySpace, d \in Vals : OrInsertWithCall(k, d)
    \/ DropEntry
    \/ IterCall
    \/ IterMutCall
    \/ NextCall
    \/ NextBackCall
    \/ DropIter
    \/ \E ix \in Indices : IndexCall(ix)
    \/ \E ix \in Indices : IndexMutCall(ix)

Next ==
    \/ NextNoAppend
    \/ \E b \in OtherObjects : AppendCall(b)

Spec == Init /\ [][Next]_vars

SpecNoAppend == Init /\ [][NextNoAppend]_vars

\* Value::from(json) for every json
InitFrom ==
    /\ root = "Null"
    /\ arr = <<>>
    /\ keys = <<>>
    /\ values = <<>>
    /\ other = ObjectNew
    /\ entry = NoEntry
    /\ iter = NoIter
    /\ debug \in BOOLEAN
    /\ panic = NoPanic
    /\ last = Call("new", 0, Null, None, FALSE, ObjectNew, "")
    /\ json \in JsonValues
    /\ pc = "from"
    /\ at = 0
    /\ num = NoNumber

NextFrom ==
    \/ FromMatch
    \/ FromArrayItem
    \/ FromObjectItem
    \/ FromReturn

SpecFrom == InitFrom /\ [][NextFrom]_vars

\* The predicates and coercions of every Number
InitNumber ==
    /\ root = "Number"
    /\ arr = <<>>
    /\ keys = <<>>
    /\ values = <<>>
    /\ other = ObjectNew
    /\ entry = NoEntry
    /\ iter = NoIter
    /\ debug \in BOOLEAN
    /\ panic = NoPanic
    /\ last = Call("new", 0, Null, None, FALSE, ObjectNew, "")
    /\ json = NoJson
    /\ pc = "number"
    /\ at = 0
    /\ num \in Numbers

NextNumber ==
    \/ IsI64Call
    \/ IsU64Call
    \/ IsF64Call
    \/ AsI64Call
    \/ AsU64Call

SpecNumber == InitNumber /\ [][NextNumber]_vars

TypeOK ==
    /\ Len(keys) <= MaxLen
    /\ IsSorted(keys)

\* ------------------------------------------------------------------ claims
\* A step of the named call that returned (used under [][...]_vars).
Stepped(op) == panic' = NoPanic /\ last'.op = op

\* A step of the named call, whether it returned or panicked.
StepOf(op) ==
    \/ panic' = NoPanic /\ last'.op = op
    \/ panic' # NoPanic /\ panic'.op = op

Has(ks, k) == \E i \in 1..Len(ks) : ks[i] = k

Count(ks, k) == Cardinality({i \in 1..Len(ks) : ks[i] = k})

\* C1: in every reachable state the keys sequence is strictly increasing.
C1_KeysStrictlyIncreasing == StrictlyIncreasing(keys)

\* C2: in every reachable state keys and values have the same length, in the
\* receiver and in append's drained argument, and an iterator never finds one
\* of its two sides exhausted before the other.
C2_LengthsAgree ==
    /\ Len(keys) = Len(values)
    /\ Len(other.keys) = Len(other.values)
    /\ panic.kind \notin {"iter_unwrap", "iter_assert"}
    /\ iter.kind # "none" => ((iter.kf < iter.kb) <=> (iter.vf < iter.vb))

\* An iterator ran to its end over an Object that an append left with a
\* repeated key.
C2_Witness ==
    /\ iter.kind # "none"
    /\ iter.kf = iter.kb
    /\ last.op = "next"
    /\ ~last.ret.some
    /\ Len(keys) >= 2
    /\ ~StrictlyIncreasing(keys)
    /\ other = ObjectNew

\* ---- the reference key -> value map of C3
\* The map an Object denotes, read off by scanning keys rather than by search.
AsMap(o) ==
    [k \in KeySpace |->
        IF Has(o.keys, k)
        THEN Some(o.values[CHOOSE i \in 1..Len(o.keys) : o.keys[i] = k])
        ELSE None]

RefSet(m, k, v) == [m EXCEPT ![k] = Some(v)]

RefDel(m, k) == [m EXCEPT ![k] = None]

RefOrInsert(m, k, d) == IF m[k].some THEN m ELSE RefSet(m, k, d)

\* The reference map m after the call c; a call on a handle acts on the key
\* the handle was obtained for.
RefAfter(c, m) ==
    IF c.op \in {"insert", "vacant_insert", "occupied_insert"} THEN RefSet(m, c.key, c.val)
    ELSE IF c.op \in {"remove", "occupied_remove"} THEN RefDel(m, c.key)
    ELSE IF c.op \in GetOrInsert THEN RefOrInsert(m, c.key, c.val)
    ELSE IF c.op = "index_mut_str" THEN RefOrInsert(m, c.key, Null)
    ELSE m

\* C3: run side by side with a reference map from the empty Object, get,
\* contains_key and len agree with the reference map after every call, and
\* values[i] is the reference map's value for keys[i].  The reference map is
\* the map the Object denoted before the call, with the call applied to it.
C3_AgreesWithReferenceMap ==
    [][(panic' = NoPanic /\ root = "Object") =>
        LET m == RefAfter(last', AsMap(Self))
            o == Object(keys', values')
        IN  /\ \A k \in KeySpace :
                /\ ObjectGet(o, k, debug).ret = m[k]
                /\ ObjectContainsKey(o, k, debug).ret = m[k].some
            /\ ObjectLen(o) = Cardinality({k \in KeySpace : m[k].some})
            /\ Len(o.values) = Len(o.keys)
            /\ \A i \in 1..Len(o.keys) : m[o.keys[i]] = Some(o.values[i])]_vars

\* C4: insert(k, v2) right after insert(k, v1) returns Some(v1) and leaves
\* exactly one entry for k, with value v2, the length and every other entry
\* unchanged.
C4_InsertTwice ==
    [][(last.op = "insert" /\ Stepped("insert") /\ last'.key = last.key) =>
        /\ last'.ret = Some(last.val)
        /\ Count(keys', last'.key) = 1
        /\ \A i \in 1..Len(keys') : keys'[i] = last'.key => values'[i] = last'.val
        /\ Len(keys') = Len(keys)
        /\ Len(values') = Len(values)
        /\ keys' = keys
        /\ \A i \in 1..Len(keys) : keys[i] # last'.key => values'[i] = values[i]]_vars

\* C5: remove(k) right after insert(k, v) returns Some(v) and get(k) is None
\* afterwards; remove(k) of an absent k returns None and changes neither
\* sequence.
C5_RemoveAfterInsert ==
    [][Stepped("remove") =>
        /\ (last.op = "insert" /\ last.key = last'.key) =>
              /\ last'.ret = Some(last.val)
              /\ ObjectGet(Object(keys', values'), last'.key, debug) =
                    [ret |-> None, panic |-> "none"]
        /\ ~Has(keys, last'.key) =>
              /\ last'.ret = None
              /\ keys' = keys
              /\ values' = values]_vars

\* An Object that satisfies the Object invariant.
Valid(o) == Len(o.keys) = Len(o.values) /\ StrictlyIncreasing(o.keys)

KeySet(ks) == {ks[i] : i \in 1..Len(ks)}

\* The number of entries of o with key k and value v.
CountPair(o, k, v) ==
    Cardinality({i \in 1..Len(o.keys) : o.keys[i] = k /\ o.values[i] = v})

\* C6: append of an argument B onto A, both satisfying the Object invariant
\* and sharing no key, leaves A with the sorted union of the keys, every key
\* with the value it had in its own object, the sum of the lengths, and B
\* empty.
C6_AppendDisjoint ==
    [][(Stepped("append") /\ Valid(Self) /\ Valid(last'.arg)
            /\ KeySet(keys) \cap KeySet(last'.arg.keys) = {}) =>
        LET a  == Self
            b  == last'.arg
            a2 == Object(keys', values')
        IN  /\ StrictlyIncreasing(a2.keys)
            /\ KeySet(a2.keys) = KeySet(a.keys) \cup KeySet(b.keys)
            /\ Len(a2.keys) = Len(a.keys) + Len(b.keys)
            /\ Len(a2.values) = Len(a2.keys)
            /\ \A k \in KeySet(a.keys) : AsMap(a2)[k] = AsMap(a)[k]
            /\ \A k \in KeySet(b.keys) : AsMap(a2)[k] = AsMap(b)[k]
            /\ Len(other'.keys) = 0
            /\ Len(other'.values) = 0]_vars

\* {"b": 1} took {"a": Null, "c": Null}: the argument's keys went to both
\* sides of the receiver's key, each value stayed with its key.
C6_Witness ==
    /\ last.op = "append"
    /\ last.arg = Object(<<1, 3>>, <<Null, Null>>)
    /\ Self = Object(<<1, 2, 3>>, <<Null, PosInt(1), Null>>)
    /\ other = ObjectNew

\* C7: append does not deduplicate.  For a key x that A and B both hold, A
\* ends with the sum of the two lengths, its keys sorted, the entries keyed x
\* of both objects at adjacent positions, and their values are A's old values
\* for x together with B's.
C7_AppendKeepsDuplicates ==
    [][Stepped("append") =>
        LET a  == Self
            b  == last'.arg
            a2 == Object(keys', values')
        IN  \A x \in KeySet(a.keys) \cap KeySet(b.keys) :
                /\ Len(a2.keys) = Len(a.keys) + Len(b.keys)
                /\ Len(a2.values) = Len(a2.keys)
                /\ IsSorted(a2.keys)
                /\ Count(a2.keys, x) = Count(a.keys, x) + Count(b.keys, x)
                /\ Count(a2.keys, x) >= 2
                /\ \A i, j \in 1..Len(a2.keys) :
                      (i < j /\ a2.keys[i] = x /\ a2.keys[j] = x) =>
                          \A h \in i..j : a2.keys[h] = x
                /\ \A v \in Vals :
                      CountPair(a2, x, v) = CountPair(a, x, v) + CountPair(b, x, v)]_vars

\* {"a": 1} took {"a": Null}: two entries keyed "a", one with each value.
C7_Witness ==
    /\ last.op = "append"
    /\ last.arg = Object(<<1>>, <<Null>>)
    /\ keys = <<1, 1>>
    /\ CountPair(Self, 1, Null) = 1
    /\ CountPair(Self, 1, PosInt(1)) = 1

\* C8: clear() returns and leaves the Object empty: both sequences empty,
\* len() 0, is_empty() true, get(k) None for every k.
C8_ClearEmpties ==
    [][ClearCall =>
        /\ panic' = NoPanic
        /\ keys' = <<>>
        /\ values' = <<>>
        /\ ObjectLen(Object(keys', values')) = 0
        /\ ObjectIsEmpty(Object(keys', values'))
        /\ \A k \in KeySpace : ~ObjectGet(Object(keys', values'), k, debug).ret.some]_vars

\* C9: entry(k).or_insert(d2) (or or_insert_with) right after
\* entry(k).or_insert(d1) (or or_insert_with) finds the entry Occupied, does
\* not call the default closure, returns the value the first call returned,
\* and changes neither the stored values nor the length.
C9_OrInsertTwice ==
    [][(last.op \in GetOrInsert /\ (Stepped("or_insert") \/ Stepped("or_insert_with"))
            /\ last'.key = last.key) =>
        /\ ObjectEntry(Self, last'.key, debug).entry.kind = "occupied"
        /\ ~last'.called
        /\ last'.ret = last.ret
        /\ last'.ret.some
        /\ last'.ret = AsMap(Self)[last'.key]
        /\ keys' = keys
        /\ values' = values
        /\ ObjectLen(Object(keys', values')) = ObjectLen(Self)]_vars

\* or_insert_with(|| 1) right after an or_insert on the same key: the closure
\* was not called and the stored Null came back.
C9_Witness ==
    /\ last.op = "or_insert_with"
    /\ last.after = "or_insert"
    /\ ~last.called
    /\ last.val = PosInt(1)
    /\ last.ret = Some(Null)
    /\ ObjectGet(Self, last.key, debug).ret = Some(Null)

\* What value[ix] addresses: the element of an Array at a position in bounds,
\* the value of an Object for a key it holds, Null otherwise.
Addressed(ix, o) ==
    IF root = "Array" /\ ix.kind = "usize" /\ ix.at < Len(arr) THEN {arr[ix.at + 1]}
    ELSE IF root = "Object" /\ ix.kind = "str" /\ Has(o.keys, ix.at)
    THEN {o.values[i] : i \in {j \in 1..Len(o.keys) : o.keys[j] = ix.at}}
    ELSE {Null}

\* C10: value[ix] never fails and never mutates: it returns the addressed
\* element, or Null when there is none, and leaves the Value as it was.
C10_IndexNeverFails ==
    [][\A ix \in Indices : IndexCall(ix) =>
        /\ panic' = NoPanic
        /\ last'.ret \in Addressed(ix, Self)
        /\ UNCHANGED <<root, arr, keys, values>>]_vars

\* The position a key k takes in sorted keys ks that do not hold it.
SortedPosition(ks, k) == Cardinality({i \in 1..Len(ks) : ks[i] < k})

\* C11: value[k] on the write path, value an Object.  With k absent it
\* inserts (k, Null) at the sorted position, after which contains_key(k) is
\* true and len() is one more; with k present it returns the existing value
\* and leaves keys, values and len() as they were.
C11_IndexMutStr ==
    [][\A k \in KeySpace : (IndexMutCall(Str(k)) /\ root = "Object") =>
        /\ panic' = NoPanic
        /\ ~Has(keys, k) =>
              /\ keys' = VecInsert(keys, SortedPosition(keys, k), k)
              /\ values' = VecInsert(values, SortedPosition(keys, k), Null)
              /\ last'.ret = Null
              /\ ObjectContainsKey(Object(keys', values'), k, debug).ret
              /\ ObjectLen(Object(keys', values')) = ObjectLen(Self) + 1
        /\ Has(keys, k) =>
              /\ last'.ret \in {values[i] : i \in {j \in 1..Len(keys) : keys[j] = k}}
              /\ keys' = keys
              /\ values' = values
              /\ ObjectLen(Object(keys', values')) = ObjectLen(Self)]_vars

\* C12: misuse of the write-path index panics and changes nothing: a
\* positional index at or past the end of an Array, a positional index on a
\* Value that is no Array, a string-like index on a Value that is no Object.
C12_IndexMutMisusePanics ==
    [][\A ix \in Indices :
        (/\ IndexMutCall(ix)
         /\ \/ ix.kind = "usize" /\ root = "Array" /\ ix.at >= Len(arr)
            \/ ix.kind = "usize" /\ root # "Array"
            \/ ix.kind = "str" /\ root # "Object") =>
        /\ panic' # NoPanic
        /\ panic'.op = "index_mut_" \o ix.kind
        /\ UNCHANGED <<root, arr, keys, values>>]_vars

\* A positional write past the end of a full Array panicked at unwrap and
\* the Array is as long as it was.
C12_Witness ==
    /\ panic = [op |-> "index_mut_usize", kind |-> "unwrap"]
    /\ root = "Array"
    /\ Len(arr) = MaxArr

\* C13: an iterator over an Object built by insert, remove and entry calls
\* walks keys and values in step between a front and a back position: next
\* yields (keys[i], values[i]) at the front position and advances it,
\* next_back yields the pair just before the back position and retreats it,
\* the keys walked are strictly increasing, the pairs yielded so far plus the
\* pairs left are the len() pairs of the Object each counted once, and a
\* call made when front and back have met returns None and moves nothing.
C13_IterYieldsEachPairOnce ==
    [][(iter.kind # "none" /\ (NextCall \/ NextBackCall)) =>
        /\ panic' = NoPanic
        /\ StrictlyIncreasing(keys)
        /\ Len(values) = Len(keys)
        /\ iter.kf = iter.vf /\ iter.kb = iter.vb
        /\ 0 <= iter.kf /\ iter.kf <= iter.kb /\ iter.kb <= ObjectLen(Self)
        /\ (iter.kf = iter.kb) => (last'.ret = None /\ iter' = iter)
        /\ (iter.kf < iter.kb /\ last'.op = "next") =>
              /\ last'.ret = Some(Pair(keys[iter.kf + 1], values[iter.kf + 1]))
              /\ iter' = [iter EXCEPT !.kf = @ + 1, !.vf = @ + 1]
        /\ (iter.kf < iter.kb /\ last'.op = "next_back") =>
              /\ last'.ret = Some(Pair(keys[iter.kb], values[iter.kb]))
              /\ iter' = [iter EXCEPT !.kb = @ - 1, !.vb = @ - 1]]_vars

\* next and next_back met in the middle of a three-entry Object, and a
\* further next_back returned None.
C13_Witness ==
    /\ iter.kind = "iter"
    /\ Len(keys) = 3
    /\ iter.kf = iter.kb
    /\ iter.kf = 2
    /\ last.op = "next_back"
    /\ last.ret = None

\* C17: the assertion of the key search never fails: in every reachable
\* state the equal range of every key in keys has length 0 or 1, and no call
\* has panicked at debug_assert_eq!(range.len(), 1).
C17_EqualRangeAtMostOne ==
    /\ \A k \in KeySpace :
          LET r == EqualRange(keys, k) IN r.end - r.start \in {0, 1}
    /\ panic.kind # "debug_assert"

\* The handle e is the Entry that entry(e.key) returns on o.
Current(e, o) == e = ObjectEntry(o, e.key, FALSE).entry

\* C18: mutation through an Entry is the direct operation.  entry(k) is
\* Occupied exactly when contains_key(k) and Vacant otherwise; Vacant.insert(v)
\* leaves the state insert(k, v) leaves and returns the value stored for k;
\* on an Occupied handle that is the one entry(k) returns, get() is get(k),
\* insert(v) leaves the state and returns the old value of insert(k, v), and
\* remove() leaves the state and returns the value of remove(k).
C18_EntryIsDirectOperation ==
    [][/\ \A k \in KeySpace : (StepOf("entry") /\ EntryCall(k) /\ panic' = NoPanic) =>
               /\ (entry'.kind = "occupied") <=> ObjectContainsKey(Self, k, debug).ret
               /\ (entry'.kind = "vacant") <=> ~ObjectContainsKey(Self, k, debug).ret
       /\ \A v \in Vals : (StepOf("vacant_insert") /\ VacantInsertCall(v)) =>
               LET d == ObjectInsert(Self, entry.key, v, debug)
               IN  /\ d.panic = "none" /\ panic' = NoPanic
                   /\ Object(keys', values') = d.obj
                   /\ last'.ret = ObjectGet(d.obj, entry.key, debug).ret
                   /\ last'.ret = Some(v)
       /\ (StepOf("occupied_get") /\ OccupiedGetCall /\ Current(entry, Self)) =>
               LET d == ObjectGet(Self, entry.key, debug)
               IN  /\ d.panic = "none" /\ panic' = NoPanic
                   /\ last'.ret = d.ret
       /\ \A v \in Vals :
             (StepOf("occupied_insert") /\ OccupiedInsertCall(v) /\ Current(entry, Self)) =>
               LET d == ObjectInsert(Self, entry.key, v, debug)
               IN  /\ d.panic = "none" /\ panic' = NoPanic
                   /\ Object(keys', values') = d.obj
                   /\ last'.ret = d.ret
       /\ (StepOf("occupied_remove") /\ OccupiedRemoveCall /\ Current(entry, Self)) =>
               LET d == ObjectRemove(Self, entry.key, debug)
               IN  /\ d.panic = "none" /\ panic' = NoPanic
                   /\ Object(keys', values') = d.obj
                   /\ last'.ret = d.ret]_vars

\* One remove() through an Occupied handle took a full Object's middle key out.
C18_Witness ==
    /\ entry.kind = "occupied"
    /\ last.op = "occupied_remove"
    /\ last.key = 2
    /\ last.ret.some
    /\ keys = <<1, 3>>

\* C19: the calls made on one OccupiedEntry obtained from entry(k), in any
\* number and order (key, get, get_mut, insert, remove), all return, key()
\* returns k, and the entry of every key other than k stays as it was.
C19_OccupiedEntryTouchesOnlyItsKey ==
    [][(/\ entry.kind = "occupied"
        /\ \/ StepOf("key") /\ KeyCall
           \/ StepOf("occupied_get") /\ OccupiedGetCall
           \/ StepOf("occupied_get_mut") /\ OccupiedGetMutCall
           \/ StepOf("occupied_insert") /\ \E v \in Vals : OccupiedInsertCall(v)
           \/ StepOf("occupied_remove") /\ OccupiedRemoveCall) =>
        /\ panic' = NoPanic
        /\ last'.op = "key" => last'.ret = Some(entry.key)
        /\ \A j \in KeySpace \ {entry.key} :
              AsMap(Object(keys', values'))[j] = AsMap(Self)[j]]_vars

\* The one Object that denotes the map m: its keys in increasing order, each
\* with its value.
Canonical(m) ==
    LET dom == {k \in KeySpace : m[k].some}
        ks  == CHOOSE s \in [1..Cardinality(dom) -> KeySpace] :
                   StrictlyIncreasing(s) /\ KeySet(s) = dom
    IN  Object(ks, [i \in 1..Cardinality(dom) |-> m[ks[i]].v])

\* C20: the representation is canonical.  The empty Object is the canonical
\* Object of the empty map, and an insert or a remove takes an Object to the
\* canonical Object of the map it denoted with the call applied; so two
\* sequences of inserts and removes with one resulting map end in Objects
\* with the same keys and values sequences, which == compares equal.
C20_CanonicalRepresentation ==
    /\ ObjectNew = Canonical([k \in KeySpace |-> None])
    /\ [][(Stepped("insert") \/ Stepped("remove")) =>
            /\ Object(keys', values') = Canonical(RefAfter(last', AsMap(Self)))
            /\ AsMap(Object(keys', values')) = RefAfter(last', AsMap(Self))]_vars

\* The smallest key was inserted last, into an Object that held the two
\* larger keys, and stands first.
C20_Witness ==
    /\ last.op = "insert"
    /\ last.key = 1
    /\ last.ret = None
    /\ keys = <<1, 2, 3>>
    /\ values = <<PosInt(1), Null, Null>>

\* The Value a scalar source value is to become.
Converted(j) == IF j.tag = "Number" THEN PosInt(j.n.x) ELSE Null

\* The value of the last pair of ps whose key is k.
LastValueFor(ps, k) ==
    ps[CHOOSE i \in 1..Len(ps) :
          ps[i][1] = k /\ \A j \in (i + 1)..Len(ps) : ps[j][1] # k][2]

\* C14: converting a source object, given as any sequence of (key, value)
\* pairs, ends without a panic in a Value::Object whose keys are the distinct
\* source keys in strictly increasing order, each with the conversion of the
\* value of the last source pair of that key.
C14_FromObjectLastWriteWins ==
    json.tag = "Object" =>
        /\ panic = NoPanic
        /\ pc = "done" =>
              /\ root = "Object"
              /\ StrictlyIncreasing(keys)
              /\ Len(values) = Len(keys)
              /\ KeySet(keys) = {json.pairs[i][1] : i \in 1..Len(json.pairs)}
              /\ \A i \in 1..Len(keys) :
                    values[i] = Converted(LastValueFor(json.pairs, keys[i]))

\* [("b", null), ("a", 1), ("b", 1)] became {"a": 1, "b": 1}.
C14_Witness ==
    /\ pc = "done"
    /\ json = JsonObject(<<<<2, JsonNull>>, <<1, JsonNumber(JsonInt(1))>>,
                           <<2, JsonNumber(JsonInt(1))>>>>)
    /\ keys = <<1, 2>>
    /\ values = <<PosInt(1), PosInt(1)>>

\* C15: converting a source number ends without a panic; a float becomes
\* Float, an integer >= 0 becomes PosInt, an integer < 0 becomes NegInt, each
\* with the source's value, and a NegInt so produced holds a value < 0.
C15_NumberFromClassifies ==
    (json.tag = "Number" /\ pc = "done") =>
        /\ panic = NoPanic
        /\ root = "Number"
        /\ json.n.float => num = NumberFloat(json.n.x)
        /\ (~json.n.float /\ json.n.x >= 0) => num = NumberPosInt(json.n.x)
        /\ (~json.n.float /\ json.n.x < 0) => num = NumberNegInt(json.n.x)
        /\ num.variant = "NegInt" => num.i < 0

\* 5, which fits u64 and i64 alike, became PosInt(5).
C15_Witness ==
    /\ pc = "done"
    /\ json = JsonNumber(JsonInt(5))
    /\ num = NumberPosInt(5)

\* C16: is_i64 holds iff as_i64 is Some, is_u64 holds iff as_u64 is Some;
\* as_i64 of PosInt(v) is Some(v) when v <= i64::MAX and None above it, and
\* is never negative; as_u64 of a NegInt is None; as_i64 and as_u64 of a
\* Float are None.
C16_NumberPredicatesAgree ==
    /\ last.op = "is_i64" => (last.ret.bool <=> NumberAsI64(num).some)
    /\ last.op = "is_u64" => (last.ret.bool <=> NumberAsU64(num).some)
    /\ last.op = "as_i64" =>
          /\ last.ret.some <=> NumberIsI64(num)
          /\ (num.variant = "PosInt" /\ num.u <= I64Max) => last.ret = Some(num.u)
          /\ (num.variant = "PosInt" /\ num.u > I64Max) => last.ret = None
          /\ (num.variant = "PosInt" /\ last.ret.some) => last.ret.v >= 0
          /\ num.variant = "NegInt" => last.ret = Some(num.i)
          /\ num.variant = "Float" => last.ret = None
    /\ last.op = "as_u64" =>
          /\ last.ret.some <=> NumberIsU64(num)
          /\ num.variant = "PosInt" => last.ret = Some(num.u)
          /\ num.variant = "NegInt" => last.ret = None
          /\ num.variant = "Float" => last.ret = None

\* as_i64 of PosInt(u64::MAX) returned None.
C16_Witness ==
    /\ last.op = "as_i64"
    /\ num = NumberPosInt(U64Max)
    /\ last.ret = None

====
